---- MODULE Spec2Model ----
(***************************************************************************)
(* Model of the Boltwood II protocol engine of boltwood/boltwood.py: the   *)
(* polling thread of class BoltwoodII (connect, backoff, read, analyse),   *)
(* the classification of a line by ResponsePrefix and the decoding of a    *)
(* sensors report by Report._parse_raw_data.                               *)
(*                                                                         *)
(* Bytes are integers 0..255, a line is a sequence of bytes.  A float of   *)
(* the wire format (at most one decimal digit) is kept as an integer       *)
(* number of tenths.                                                       *)
(***************************************************************************)
EXTENDS Integers, Sequences, FiniteSets, TLC

(***************************************************************************)
(* Bounds of the model.                                                    *)
(***************************************************************************)
MaxErrors == 112
MaxPollFail == 11
MaxStarts == 1

(***************************************************************************)
(* Program constants.                                                      *)
(***************************************************************************)
REQUEST_POLL == <<1>>
REPORT_SUFFIX == <<10>>
thread_sleep == 1
max_thread_sleep == 900

NUL == 0
SP == 32

ResponsePrefix ==
    [ACK           |-> <<2, 65>>,
     THERMO_CALIB  |-> <<2, 77, 67>>,
     REPORT        |-> <<2, 77, 68>>,
     WETNESS_CALIB |-> <<2, 77, 75>>,
     NACK          |-> <<2, 78>>,
     POLLING       |-> <<2, 80>>,
     ECHO          |-> <<2, 81>>,
     ROOF          |-> <<2, 82>>,
     THRESHOLD     |-> <<2, 77, 84>>,
     WETNESS       |-> <<2, 77, 87>>]

(***************************************************************************)
(* Byte-string helpers: the Python operations the code applies to a line.  *)
(***************************************************************************)
\* bytes.split() / str.split() separate on ASCII whitespace
IsSpace(b) == b \in {9, 10, 11, 12, 13, 32}

\* x[a:b] of Python for 0 <= a, given as the 1-based closed range it keeps
Slice(x, first, last) ==
    IF last < first THEN <<>> ELSE SubSeq(x, first, last)

\* the position at which the word starting at i ends
WordEnd(x, i) ==
    CHOOSE j \in i..Len(x) :
        /\ \A k \in i..j : ~IsSpace(x[k])
        /\ (j = Len(x) \/ IsSpace(x[j + 1]))

\* the positions at which a word of x starts: a non-blank at the start of x
\* or after a blank
WordStarts(x) ==
    {i \in 1..Len(x) : ~IsSpace(x[i]) /\ (i = 1 \/ IsSpace(x[i - 1]))}

\* x.split(): the maximal runs of non-whitespace bytes, in order
Split(x) ==
    LET st == WordStarts(x)
    IN  [n \in 1..Cardinality(st) |->
            LET i == CHOOSE i \in st : Cardinality({j \in st : j < i}) = n - 1
            IN  SubSeq(x, i, WordEnd(x, i))]

\* StripNul that leaves the null byte in place
StripNul_Never(raw) == raw

\* raw_data.startswith(b'\x00') => raw_data[1:]
StripNul(raw) ==
    IF Len(raw) > 0 /\ raw[1] = NUL THEN Tail(raw) ELSE raw

\* ResponseType matching on the leading bytes of tmp only
ResponseType_Prefix(tmp) ==
    LET match(n) == Len(tmp) >= Len(ResponsePrefix[n])
                    /\ SubSeq(tmp, 1, Len(ResponsePrefix[n])) = ResponsePrefix[n]
    IN  IF \E n \in DOMAIN ResponsePrefix : match(n)
        THEN CHOOSE n \in DOMAIN ResponsePrefix : match(n)
        ELSE "ValueError"

\* ResponsePrefix(tmp): the member whose value is tmp, ValueError if none
ResponseType(tmp) ==
    IF \E n \in DOMAIN ResponsePrefix : ResponsePrefix[n] = tmp
    THEN CHOOSE n \in DOMAIN ResponsePrefix : ResponsePrefix[n] = tmp
    ELSE "ValueError"

(***************************************************************************)
(* Code tables of the sensors report.                                      *)
(***************************************************************************)
HT_CODES ==
    (0 :> "OK") @@ (1 :> "humidity write failure") @@
    (2 :> "humidty measurement unfinished") @@ (3 :> "temperature write failure") @@
    (4 :> "temperature measurement unfinished") @@
    (5 :> "humidity data line not high") @@ (6 :> "temperature data line not high")

CLOUD_CODES ==
    (0 :> "unknown") @@ (1 :> "clear") @@ (2 :> "cloudy") @@ (3 :> "very cloudy")

WIND_CODES ==
    (0 :> "unknown") @@ (1 :> "OK") @@ (2 :> "windy") @@ (3 :> "very windy")

RAIN_CODES ==
    (0 :> "unknown") @@ (1 :> "not raining") @@ (2 :> "recently raining") @@
    (3 :> "raining")

SKY_CODES ==
    (0 :> "unknown") @@ (1 :> "clear") @@ (2 :> "cloudy") @@ (3 :> "very cloudy") @@
    (4 :> "wet")

ROOF_CODES ==
    (0 :> "OK") @@ (1 :> "close")

\* keyed by the labels '999.9', '-999.9', '-998.9'
TSKY_CODES ==
    [hot |-> "saturated hot", cold |-> "saturated cold", wet |-> "wet sensor"]

\* keyed by the labels '-1.', '-2.', '-3.', '-4.'
ANEMOMETER_CODES ==
    [m1 |-> "heating up", m2 |-> "wet", m3 |-> "bad A/D", m4 |-> "probe not heating"]

\* keyed by the letters N, W, w
WETNESS_CODES ==
    (<<78>> :> "dry") @@ (<<87>> :> "wet") @@ (<<119>> :> "recently wet")

\* keyed by the letters N, R, r
OTHER_RAIN_CODES ==
    (<<78>> :> "none") @@ (<<82>> :> "rain") @@ (<<114>> :> "recent rain")

\* keyed by the labels '999.9', '-99.9'
TCALIB_CODES ==
    [hot |-> "saturated hot", cold |-> "saturated cold"]

HEATER_CODES ==
    (1 :> "too hot") @@ (0 :> "OK") @@ (2 :> "too cold") @@ (3 :> "too cold") @@
    (4 :> "too cold") @@ (5 :> "too cold") @@ (6 :> "saturated case temperature") @@
    (7 :> "normal control")

DAYLIGHT_CODES ==
    (0 :> "unknown") @@ (1 :> "night") @@ (2 :> "twilight") @@ (3 :> "daylight")

(***************************************************************************)
(* int() and float() of Python on a word of the wire format: an optional   *)
(* sign, digits and, for a float, a point and at most one decimal digit.   *)
(* The result is [ok, v]; ok = FALSE stands for ValueError.  v of a float  *)
(* is in tenths.                                                           *)
(***************************************************************************)
IsDigit(b) == b \in 48..57

\* value of a run of decimal digits
DigitsValue(w) ==
    LET val[i \in 0..Len(w)] ==
            IF i = 0 THEN 0 ELSE 10 * val[i - 1] + (w[i] - 48)
    IN  val[Len(w)]

AllDigits(w) == \A i \in 1..Len(w) : IsDigit(w[i])

HasSign(w) == Len(w) > 0 /\ w[1] \in {43, 45}

Unsigned(w) == IF HasSign(w) THEN Tail(w) ELSE w

SignOf(w) == IF Len(w) > 0 /\ w[1] = 45 THEN -1 ELSE 1

\* int(w)
ParseInt(w) ==
    LET u == Unsigned(w)
    IN  IF u # <<>> /\ AllDigits(u)
        THEN [ok |-> TRUE, v |-> SignOf(w) * DigitsValue(u)]
        ELSE [ok |-> FALSE, v |-> 0]

\* float(w), in tenths.  The sensor prints one fractional digit, and so do
\* the words of Lines: for them the value in tenths is exact.  Further
\* fractional digits are accepted, as float() accepts them, and truncated.
ParseFloat(w) ==
    LET u    == Unsigned(w)
        dots == {i \in 1..Len(u) : u[i] = 46}
    IN  IF dots = {}
        THEN IF u # <<>> /\ AllDigits(u)
             THEN [ok |-> TRUE, v |-> SignOf(w) * 10 * DigitsValue(u)]
             ELSE [ok |-> FALSE, v |-> 0]
        ELSE LET d    == CHOOSE i \in dots : TRUE
                 ip   == Slice(u, 1, d - 1)
                 fp   == Slice(u, d + 1, Len(u))
             IN  IF Cardinality(dots) = 1 /\ AllDigits(ip) /\ AllDigits(fp)
                    /\ Len(ip) + Len(fp) > 0
                 THEN [ok |-> TRUE,
                       v  |-> SignOf(w) * (10 * DigitsValue(ip)
                                + DigitsValue(SubSeq(fp, 1, IF fp = <<>> THEN 0 ELSE 1)))]
                 ELSE [ok |-> FALSE, v |-> 0]

(***************************************************************************)
(* Report: data, errors and comments are maps from field name to value.    *)
(* exc is the exception that leaves Report(raw_data), "none" if it returns.*)
(***************************************************************************)
EmptyMap == [k \in {} |-> 0]

Put(f, k, v) == [x \in (DOMAIN f) \cup {k} |-> IF x = k THEN v ELSE f[x]]

\* Report.__init__ before parsing
NewReport ==
    [data |-> EmptyMap, errors |-> EmptyMap, comments |-> EmptyMap,
     wet |-> FALSE, raining |-> FALSE, exc |-> "none"]

SetData(st, k, v) == [st EXCEPT !.data = Put(st.data, k, v)]

SetError(st, k, v) == [st EXCEPT !.errors = Put(st.errors, k, v)]

SetComment(st, k, v) == [st EXCEPT !.comments = Put(st.comments, k, v)]

Raise(st, e) == [st EXCEPT !.exc = e]

\* self.data[key] = float(w)
FloatField(st, w, key) ==
    LET p == ParseFloat(w)
    IN  IF p.ok THEN SetData(st, key, p.v) ELSE Raise(st, "ValueError")

\* self.data[key] = int(w)
IntField(st, w, key) ==
    LET p == ParseInt(w)
    IN  IF p.ok THEN SetData(st, key, p.v) ELSE Raise(st, "ValueError")

\* self.data[key] = TABLE[int(w)]
CodeField(st, w, table, key) ==
    LET p == ParseInt(w)
    IN  IF ~p.ok THEN Raise(st, "ValueError")
        ELSE IF p.v \notin DOMAIN table THEN Raise(st, "KeyError")
        ELSE SetData(st, key, table[p.v])

\* status = HT_CODES[int(s[0])] and what follows it
HTStatus(st, w) ==
    LET r == CodeField(st, w, HT_CODES, "hT status")
    IN  IF r.exc # "none" THEN r
        ELSE IF r.data["hT status"] # "OK"
             THEN SetError(r, "hT status", r.data["hT status"])
             ELSE r

\* rain = RAIN_CODES[int(s[3])] and what follows it
RainStatus(st, w) ==
    LET r == CodeField(st, w, RAIN_CODES, "rain status")
    IN  IF r.exc # "none" THEN r
        ELSE IF r.data["rain status"] = "raining"
             THEN [r EXCEPT !.raining = TRUE, !.wet = TRUE]
             ELSE r

\* self.data['rain code'] = OTHER_RAIN_CODES[s[10]]
RainCode(st, w) ==
    IF w \in DOMAIN OTHER_RAIN_CODES
    THEN SetData(st, "rain code", OTHER_RAIN_CODES[w])
    ELSE Raise(st, "KeyError")

\* SkyTemperature without the withdrawal of the wet mark below -999
SkyTemperature_ColdStaysWet(st, w) ==
    LET p  == ParseFloat(w)
        v  == p.v
        a  == IF v > 9990 THEN SetError(st, "dT_sky", TSKY_CODES.hot) ELSE st
        b  == IF v < -9980 THEN SetComment(a, "dT_sky", TSKY_CODES.wet) ELSE a
        c  == IF v < -9990 THEN SetComment(b, "dT_sky", TSKY_CODES.cold) ELSE b
        ok == ~(v > 9990) /\ ~(v < -9980) /\ ~(v < -9990)
        d  == IF ok THEN SetData(c, "dT_sky", v) ELSE c
    IN  IF ~p.ok THEN Raise(st, "ValueError")
        ELSE IF v < -9980 THEN [d EXCEPT !.wet = TRUE] ELSE d

\* SkyTemperature with the wet mark of the report cleared below -999
SkyTemperature_ColdClearsWet(st, w) ==
    LET p  == ParseFloat(w)
        v  == p.v
        a  == IF v > 9990 THEN SetError(st, "dT_sky", TSKY_CODES.hot) ELSE st
        b  == IF v < -9980 THEN SetComment(a, "dT_sky", TSKY_CODES.wet) ELSE a
        c  == IF v < -9990 THEN SetComment(b, "dT_sky", TSKY_CODES.cold) ELSE b
        ok == ~(v > 9990) /\ ~(v < -9980) /\ ~(v < -9990)
        d  == IF ok THEN SetData(c, "dT_sky", v) ELSE c
    IN  IF ~p.ok THEN Raise(st, "ValueError")
        ELSE IF v < -9990 THEN [d EXCEPT !.wet = FALSE]
        ELSE IF v < -9980 THEN [d EXCEPT !.wet = TRUE] ELSE d

\* the three sequential checks of dT_sky = float(s[6])
SkyTemperature(st, w) ==
    LET p  == ParseFloat(w)
        v  == p.v
        a  == IF v > 9990 THEN SetError(st, "dT_sky", TSKY_CODES.hot) ELSE st
        b  == IF v < -9980 THEN SetComment(a, "dT_sky", TSKY_CODES.wet) ELSE a
        c  == IF v < -9990 THEN SetComment(b, "dT_sky", TSKY_CODES.cold) ELSE b
        ok == ~(v > 9990) /\ ~(v < -9980) /\ ~(v < -9990)
        w2 == (v < -9980) /\ ~(v < -9990)
        d  == IF ok THEN SetData(c, "dT_sky", v) ELSE c
    IN  IF ~p.ok THEN Raise(st, "ValueError")
        ELSE IF w2 THEN [d EXCEPT !.wet = TRUE] ELSE d

\* WetStatus with 'recently wet' taken for wet as well
WetStatus_RecentlyWet(st, w) ==
    IF w \notin DOMAIN WETNESS_CODES THEN Raise(st, "KeyError")
    ELSE LET r == SetData(st, "wet status", WETNESS_CODES[w])
         IN  IF WETNESS_CODES[w] \in {"wet", "recently wet"}
             THEN [r EXCEPT !.wet = TRUE] ELSE r

\* status = WETNESS_CODES[s[9]] and what follows it
WetStatus(st, w) ==
    IF w \notin DOMAIN WETNESS_CODES THEN Raise(st, "KeyError")
    ELSE LET r == SetData(st, "wet status", WETNESS_CODES[w])
         IN  IF WETNESS_CODES[w] = "wet" THEN [r EXCEPT !.wet = TRUE] ELSE r

\* status = int(s[14]) and the heater code checks
HeaterStatus(st, w) ==
    LET p == ParseInt(w)
        status == p.v
    IN  IF ~p.ok THEN Raise(st, "ValueError")
        ELSE IF status < 0 \/ status > Cardinality(DOMAIN HEATER_CODES)
             THEN SetError(st, "unknown code", "heater code status")
        ELSE IF status \notin DOMAIN HEATER_CODES THEN Raise(st, "KeyError")
        ELSE LET r == SetData(st, "heater status", HEATER_CODES[status])
             IN  IF ~(status = 0 \/ status = 7)
                 THEN SetError(r, "heater", HEATER_CODES[status])
                 ELSE r

\* CalibTemperature without the comment for a value below -99
CalibTemperature_HotOnly(st, w) ==
    LET r == FloatField(st, w, "T_calib")
    IN  IF r.exc # "none" THEN r
        ELSE IF r.data["T_calib"] > 9990
             THEN SetComment(r, "T_calib", TCALIB_CODES.hot)
        ELSE r

\* Tcalib = float(s[15]) and its two limits
CalibTemperature(st, w) ==
    LET r == FloatField(st, w, "T_calib")
    IN  IF r.exc # "none" THEN r
        ELSE IF r.data["T_calib"] > 9990
             THEN SetComment(r, "T_calib", TCALIB_CODES.hot)
        ELSE IF r.data["T_calib"] < -990
             THEN SetComment(r, "T_calib", TCALIB_CODES.cold)
        ELSE r

\* dT = float(s[18]) and the if/elif chain over the anemometer limits
AnemometerTemperature(st, w) ==
    LET r == FloatField(st, w, "dT_anemom")
    IN  IF r.exc # "none" THEN r
        ELSE LET dT == r.data["dT_anemom"]
             IN  IF dT < -5 THEN SetError(r, "dT_anemom", ANEMOMETER_CODES.m1)
                 ELSE IF dT < -15 THEN SetError(r, "dT_anemom", ANEMOMETER_CODES.m2)
                 ELSE IF dT < -25 THEN SetError(r, "dT_anemom", ANEMOMETER_CODES.m3)
                 ELSE IF dT < -35 THEN SetError(r, "dT_anemom", ANEMOMETER_CODES.m4)
                 ELSE r

\* self.data['wet'] = wet; self.data['raining'] = raining
Compound(st) == SetData(SetData(st, "wet", st.wet), "raining", st.raining)

NumSteps == 24

\* the statements of the try block in program order (s[i] of Python is s[i+1])
ParseStep(k, st, s) ==
    CASE k = 1  -> FloatField(st, s[8], "T_ambient")
      [] k = 2  -> FloatField(st, s[12], "humidity")
      [] k = 3  -> HTStatus(st, s[1])
      [] k = 4  -> RainStatus(st, s[4])
      [] k = 5  -> RainCode(st, s[11])
      [] k = 6  -> SkyTemperature(st, s[7])
      [] k = 7  -> CodeField(st, s[2], CLOUD_CODES, "cloud status")
      [] k = 8  -> CodeField(st, s[5], SKY_CODES, "sky status")
      [] k = 9  -> CodeField(st, s[3], WIND_CODES, "wind status")
      [] k = 10 -> FloatField(st, s[9], "windspeed")
      [] k = 11 -> WetStatus(st, s[10])
      [] k = 12 -> CodeField(st, s[6], ROOF_CODES, "roof status")
      [] k = 13 -> FloatField(st, s[13], "T_dewpoint")
      [] k = 14 -> FloatField(st, s[14], "T_case")
      [] k = 15 -> HeaterStatus(st, s[15])
      [] k = 16 -> CalibTemperature(st, s[16])
      [] k = 17 -> IntField(st, s[17], "heater")
      [] k = 18 -> FloatField(st, s[18], "sensor voltage")
      [] k = 19 -> AnemometerTemperature(st, s[19])
      [] k = 20 -> IntField(st, s[20], "wet drop")
      [] k = 21 -> IntField(st, s[21], "wet avg")
      [] k = 22 -> IntField(st, s[22], "wet dry")
      [] k = 23 -> CodeField(st, s[34], DAYLIGHT_CODES, "illumination")
      [] k = 24 -> Compound(st)
      [] OTHER  -> st

\* run the statements in order, stopping at the first one that raises
RunSteps(s) ==
    LET after[k \in 0..NumSteps] ==
            IF k = 0 THEN NewReport
            ELSE LET st == after[k - 1]
                 IN  IF st.exc # "none" THEN st ELSE ParseStep(k, st, s)
    IN  after[NumSteps]

\* bytes.decode('utf-8') fails on a byte that is no valid UTF-8 (here: >= 128)
Decodable(x) == \A i \in 1..Len(x) : x[i] < 128

\* except IndexError / except ValueError: the packet error is recorded and
\* the report returned; any other exception leaves _parse_raw_data
Caught(r) ==
    IF r.exc \in {"IndexError", "ValueError"}
    THEN [r EXCEPT !.errors = Put(@, "packet", "cannot completely parse packet"),
                   !.exc = "none"]
    ELSE r

\* ParseFields with the missing fields of a short packet read as 0
ParseFields_Padded(s) ==
    IF Len(s) > 35
    THEN SetError(NewReport, "packet", "Boltwood II report too small")
    ELSE Caught(RunSteps([i \in 1..35 |-> IF i <= Len(s) THEN s[i] ELSE <<48>>]))

\* s = line.split(); if len(s) != 35: ...; try: ...
ParseFields(s) ==
    IF Len(s) # 35
    THEN SetError(NewReport, "packet", "Boltwood II report too small")
    ELSE Caught(RunSteps(s))

\* line = ....decode('utf-8'), except UnicodeDecodeError
ParseLine(line) ==
    IF ~Decodable(line)
    THEN SetComment(NewReport, "decoding", "unicode decode error")
    ELSE ParseFields(Split(line))

\* Report._parse_raw_data: self.raw_data[len(ResponsePrefix.REPORT.value):-1]
ParseRawData(raw_data) ==
    ParseLine(Slice(raw_data, Len(ResponsePrefix.REPORT) + 1, Len(raw_data) - 1))

\* Report(raw_data)
Report(raw_data) == ParseRawData(raw_data)

(***************************************************************************)
(* Lines the device can deliver to readline().                             *)
(***************************************************************************)
\* the fields of a packet, each preceded by one blank
JoinFields(fs) ==
    LET joined[i \in 0..Len(fs)] ==
            IF i = 0 THEN <<>> ELSE joined[i - 1] \o <<SP>> \o fs[i]
    IN  joined[Len(fs)]

\* a complete frame: prefix, fields, terminator
Frame(prefix, fs) == prefix \o JoinFields(fs) \o REPORT_SUFFIX

\* the 35 fields of the example packet of Report._parse_raw_data
ExampleFields ==
    << <<48>>, <<51>>, <<49>>, <<49>>, <<51>>, <<49>>,
       <<45,51,46,54>>, <<50,55,46,48>>, <<48,46,48>>,
       <<78>>, <<78>>, <<51,49>>, <<56,46,54>>, <<52,49,46,54>>,
       <<48>>, <<45,57,57,46,57>>, <<48>>, <<50,52,46,48>>, <<50,52,46,55>>,
       <<50>>, <<45,56,49>>, <<45,54,51>>,
       <<48,48,48>>, <<49,51,53>>, <<48,49,51,48>>, <<48,51,52,56>>,
       <<48,57,52,50>>, <<49,48,50,51>>, <<48,49,52,56>>, <<48,49,53,50>>,
       <<48,46,48>>, <<48,53,51>>, <<49,51,57,57,54>>, <<51>>,
       <<48,54,53,51,49,48,57,55>> >>

ExampleLine == Frame(ResponsePrefix.REPORT, ExampleFields)

\* sensors packets: the example, a short one, one with an HT code outside
\* HT_CODES, one with a non-numeric temperature, one raining, one with a
\* byte that is no UTF-8
ReportLines ==
    { ExampleLine,
      Frame(ResponsePrefix.REPORT, SubSeq(ExampleFields, 1, 10)),
      Frame(ResponsePrefix.REPORT, [ExampleFields EXCEPT ![1] = <<57>>]),
      Frame(ResponsePrefix.REPORT, [ExampleFields EXCEPT ![8] = <<88>>]),
      Frame(ResponsePrefix.REPORT, [ExampleFields EXCEPT ![4] = <<51>>]),
      Frame(ResponsePrefix.REPORT, [ExampleFields EXCEPT ![35] = <<255>>]) }

\* one frame of every kind of ResponsePrefix other than REPORT
OtherFrames ==
    { Frame(ResponsePrefix[n], <<>>) : n \in {"ACK", "NACK", "POLLING", "ECHO", "ROOF"} }
    \cup
    { Frame(ResponsePrefix[n], << <<49>> >>) :
        n \in {"THERMO_CALIB", "WETNESS_CALIB", "THRESHOLD", "WETNESS"} }

\* a read timeout, a bare terminator, a blank line, an unknown type byte,
\* a known type followed by one more byte
OddLines == { <<>>, <<10>>, <<13, 10>>, <<2, 88, 10>>, <<2, 80, 88, 10>> }

\* every line also with the stray leading null byte
Lines ==
    LET base == ReportLines \cup OtherFrames \cup OddLines
    IN  base \cup { <<NUL>> \o l : l \in {ExampleLine, <<2, 80, 10>>, <<10>>} }

(***************************************************************************)
(* State of a BoltwoodII instance and of its polling thread.               *)
(*   conn          self._conn: "None", or a Serial object "open"/"closed"  *)
(*   closing       self._closing: "None", or an Event "clear"/"set"        *)
(*   callback      self._callback is not None                              *)
(*   serial_errors, sleep_time   locals of _poll_thread                     *)
(*   raw_data      the line read in the current iteration, stripped        *)
(*   pc            position of the polling thread                          *)
(*   exc           the exception that ended the polling thread             *)
(*   io            the calls made on the serial port in the current        *)
(*                 iteration of the loop, in order                         *)
(*   failure_logs  'failed connections' records logged in the current      *)
(*                 iteration                                               *)
(*   backed_off    sleep_time was above thread_sleep in this thread        *)
(*   calls         invocations of the callback in the current iteration    *)
(*   last_report   the report handed to the callback in the current        *)
(*                 iteration, NewReport if none                            *)
(*   starts        number of calls of start_polling                        *)
(*   reports       the list of reports handed to Report.average            *)
(*   stream        the bytes the device has sent that were not yet fed to  *)
(*                 the frame extractor                                     *)
(*   buffer        the bytes fed to the extractor that are in no frame yet *)
(*   frames        the frames the extractor has yielded so far             *)
(***************************************************************************)
VARIABLES conn, closing, callback, serial_errors, sleep_time, raw_data,
          pc, exc, io, failure_logs, calls, last_report, starts, backed_off, reports,
          stream, buffer, frames,
          threads, caller,
          client, queue, held, written, sink_pc, sink_closing, send_failures,
          offered

\* the state of the polling threads of one BoltwoodII instance and of the
\* code that calls start_polling and stop_polling
ownerVars == <<threads, caller>>

\* the state of an Influx export sink
sinkVars == <<client, queue, held, written, sink_pc, sink_closing,
              send_failures, offered>>

vars == <<conn, closing, callback, serial_errors, sleep_time, raw_data,
          pc, exc, io, failure_logs, calls, last_report, starts, backed_off,
          reports, stream, buffer, frames, ownerVars, sinkVars>>

\* one call on the serial port; ok = FALSE: it raised SerialException
IO(op, data, ok) == [op |-> op, data |-> data, ok |-> ok]

OpenOK == IO("open", <<>>, TRUE)

ReadOK == IO("read", <<>>, TRUE)

CloseOK == IO("close", <<>>, TRUE)

\* self._conn.write(REQUEST_POLL)
PollRequest(ok) == IO("write", REQUEST_POLL, ok)

\* BoltwoodII.__init__
Init ==
    /\ conn = "None"
    /\ closing = "None"
    /\ callback = FALSE
    /\ serial_errors = 0
    /\ sleep_time = thread_sleep
    /\ raw_data = <<>>
    /\ pc = "idle"
    /\ exc = "none"
    /\ io = <<>>
    /\ failure_logs = 0
    /\ calls = 0
    /\ last_report = NewReport
    /\ starts = 0
    /\ backed_off = FALSE
    /\ reports = <<>>
    /\ stream = <<>>
    /\ buffer = <<>>
    /\ frames = <<>>
    /\ threads = <<>>
    /\ caller = "free"
    /\ client = FALSE
    /\ queue = <<>>
    /\ held = 0
    /\ written = <<>>
    /\ sink_pc = "new"
    /\ sink_closing = FALSE
    /\ send_failures = 0
    /\ offered = 0

\* start_polling(callback), and the initialisation of the thread's locals
StartPolling(cb) ==
    /\ pc \in {"idle", "done", "crashed"}
    /\ starts < MaxStarts
    /\ callback' = cb
    /\ closing' = "clear"
    /\ serial_errors' = 0
    /\ sleep_time' = thread_sleep
    /\ pc' = "loop"
    /\ exc' = "none"
    /\ starts' = starts + 1
    /\ raw_data' = <<>>
    /\ io' = <<>>
    /\ failure_logs' = 0
    /\ calls' = 0
    /\ last_report' = NewReport
    /\ backed_off' = FALSE
    /\ UNCHANGED <<conn, reports,
                   stream, buffer, frames,
                   ownerVars, sinkVars>>

\* stop_polling: self._closing.set()
StopPolling ==
    /\ closing = "clear"
    /\ closing' = "set"
    /\ UNCHANGED <<conn, callback, serial_errors, sleep_time, raw_data,
                   pc, exc, io, failure_logs, calls, last_report, starts, backed_off,
                   reports,
                   stream, buffer, frames,
                   ownerVars, sinkVars>>

\* LoopExit with the shutdown signal looked at only once a connection exists
LoopExit_ConnectedOnly ==
    /\ pc = "loop"
    /\ closing = "set"
    /\ conn # "None"
    /\ pc' = "close"
    /\ UNCHANGED <<conn, closing, callback, serial_errors, sleep_time, raw_data,
                   exc, io, failure_logs, calls, last_report, starts, backed_off,
                   reports,
                   stream, buffer, frames,
                   ownerVars, sinkVars>>

\* while not self._closing.is_set(): the loop is left
LoopExit ==
    /\ pc = "loop"
    /\ closing = "set"
    /\ pc' = "close"
    /\ UNCHANGED <<conn, closing, callback, serial_errors, sleep_time, raw_data,
                   exc, io, failure_logs, calls, last_report, starts, backed_off,
                   reports,
                   stream, buffer, frames,
                   ownerVars, sinkVars>>

\* NextSleepTime without the test of the failure count
NextSleepTime_EveryFailure(n, t) ==
    IF t < max_thread_sleep THEN t * 2 ELSE thread_sleep

\* the delay after one more failed connection, n the new failure count
NextSleepTime(n, t) ==
    IF n % 10 = 0
    THEN IF t < max_thread_sleep THEN t * 2 ELSE thread_sleep
    ELSE t

\* the 'failed connections' records logged by the failure that makes the
\* count n
FailureRecords(n) == 1

\* ConnectOK without the reset of the delay
ConnectOK_KeepDelay ==
    /\ pc = "loop"
    /\ closing # "set"
    /\ conn = "None"
    /\ conn' = "open"
    /\ io' = io \o <<OpenOK, PollRequest(TRUE)>>
    /\ serial_errors' = 0
    /\ pc' = "read"
    /\ UNCHANGED <<closing, callback, raw_data, exc, failure_logs, calls,
                   last_report, starts, backed_off, sleep_time, reports,
                   stream, buffer, frames,
                   ownerVars, sinkVars>>

\* ConnectOK without the poll request of _connect_serial
ConnectOK_NoPoll ==
    /\ pc = "loop"
    /\ closing # "set"
    /\ conn = "None"
    /\ conn' = "open"
    /\ io' = io \o <<OpenOK>>
    /\ serial_errors' = 0
    /\ sleep_time' = thread_sleep
    /\ pc' = "read"
    /\ UNCHANGED <<closing, callback, raw_data, exc, failure_logs, calls,
                   last_report, starts, backed_off,
                   reports,
                   stream, buffer, frames,
                   ownerVars, sinkVars>>

\* _connect_serial returns: Serial() opened, the poll request written
ConnectOK ==
    /\ pc = "loop"
    /\ closing # "set"
    /\ conn = "None"
    /\ conn' = "open"
    /\ io' = io \o <<OpenOK, PollRequest(TRUE)>>
    /\ serial_errors' = 0
    /\ sleep_time' = thread_sleep
    /\ pc' = "read"
    /\ UNCHANGED <<closing, callback, raw_data, exc, failure_logs, calls,
                   last_report, starts, backed_off,
                   reports,
                   stream, buffer, frames,
                   ownerVars, sinkVars>>

\* the except branch: count the failure, adapt the delay, log
ConnectFailed ==
    /\ serial_errors < MaxErrors
    /\ serial_errors' = serial_errors + 1
    /\ sleep_time' = NextSleepTime(serial_errors + 1, sleep_time)
    /\ failure_logs' = FailureRecords(serial_errors + 1)
    /\ backed_off' = (backed_off \/ sleep_time' > thread_sleep)
    /\ pc' = "read"
    /\ UNCHANGED <<closing, callback, raw_data, exc, calls, last_report, starts,
                   reports,
                   stream, buffer, frames,
                   ownerVars, sinkVars>>

\* serial.Serial(...) raises SerialException: self._conn stays None
ConnectOpenFail ==
    /\ pc = "loop"
    /\ closing # "set"
    /\ conn = "None"
    /\ ConnectFailed
    /\ UNCHANGED <<conn, io>>

\* serial.Serial(...) was assigned to self._conn, then the write of the poll
\* request raises SerialException (in the model: only within the first
\* MaxPollFail attempts of a run of failures)
ConnectWriteFail ==
    /\ pc = "loop"
    /\ serial_errors < MaxPollFail
    /\ closing # "set"
    /\ conn = "None"
    /\ conn' = "open"
    /\ io' = io \o <<OpenOK, PollRequest(FALSE)>>
    /\ ConnectFailed

\* if self._conn is None: not taken
SkipConnect ==
    /\ pc = "loop"
    /\ closing # "set"
    /\ conn # "None"
    /\ pc' = "read"
    /\ UNCHANGED <<conn, closing, callback, serial_errors, sleep_time, raw_data,
                   exc, io, failure_logs, calls, last_report, starts, backed_off,
                   reports,
                   stream, buffer, frames,
                   ownerVars, sinkVars>>

\* if self._conn is not None: not taken
NoRead ==
    /\ pc = "read"
    /\ conn = "None"
    /\ pc' = "wait"
    /\ UNCHANGED <<conn, closing, callback, serial_errors, sleep_time, raw_data,
                   exc, io, failure_logs, calls, last_report, starts, backed_off,
                   reports,
                   stream, buffer, frames,
                   ownerVars, sinkVars>>

(***************************************************************************)
(* _analyse_message(raw_data)                                              *)
(***************************************************************************)
\* NoData without the test for the bare terminator
NoData_EmptyOnly(raw) == Len(raw) = 0

\* if len(raw_data) == 0 or raw_data == b'\n'
NoData(raw) == Len(raw) = 0 \/ raw = <<10>>

\* tmp = raw_data.split()[0]; ResponsePrefix(tmp)
FirstWordType(words) ==
    IF words = <<>> THEN "IndexError" ELSE ResponseType(words[1])

\* what _analyse_message makes of raw: "nodata", "IndexError" when
\* raw.split() is empty, "ValueError" when the first word is no
\* ResponsePrefix, else the name of the ResponsePrefix
Classify(raw) ==
    IF NoData(raw) THEN "nodata" ELSE FirstWordType(Split(raw))

\* PollTypes with NACK answered like POLLING
PollTypes_WithNack == {"POLLING", "NACK"}

\* if response_type == ResponsePrefix.POLLING
PollTypes == {"POLLING"}

\* elif response_type == ResponsePrefix.REPORT
ReportTypes == {"REPORT"}

\* PollReply with an acknowledge frame written before the poll request
PollReply_AckFirst(ok) == <<IO("write", <<2, 65, 10>>, TRUE), PollRequest(ok)>>

\* the writes made on a frame of a type of PollTypes: the poll request
PollReply(ok) == <<PollRequest(ok)>>

\* the effect of a call of _analyse_message that does nothing
Nothing == [writes |-> <<>>, calls |-> 0, report |-> NewReport, exc |-> "none"]

\* the exception, if any, that ends a call on the port or of the callback
Exit(ok, e) == IF ok THEN "none" ELSE e

\* the branches of _analyse_message for a line classified as kind; report
\* is Report(raw_data), created only in the REPORT branch
Dispatch(kind, report, cb, ok) ==
    CASE kind = "nodata" ->
           [Nothing EXCEPT !.writes = <<PollRequest(ok)>>,
                           !.exc = Exit(ok, "SerialException")]
      [] kind = "IndexError" ->
           [Nothing EXCEPT !.exc = "IndexError"]
      [] kind = "ValueError" ->
           Nothing
      [] kind \in PollTypes ->
           [Nothing EXCEPT !.writes = PollReply(ok),
                           !.exc = Exit(ok, "SerialException")]
      [] kind \in ReportTypes \ PollTypes ->
           IF report.exc # "none" THEN [Nothing EXCEPT !.exc = report.exc]
           ELSE IF cb
           THEN [Nothing EXCEPT !.calls = 1, !.report = report,
                                !.exc = Exit(ok, "CallbackError")]
           ELSE Nothing
      [] OTHER ->
           Nothing

\* the effect of _analyse_message(raw): the writes on the port, the calls of
\* the callback and their argument, the exception that leaves it.  cb: a
\* callback is registered; ok: the write or the callback it calls returns
\* (else it raises)
AnalyseMessage(raw, cb, ok) == Dispatch(Classify(raw), Report(raw), cb, ok)

\* raw_data = self._conn.readline(), the leading null byte cut away, and
\* self._analyse_message(raw_data)
ReadLine(line, ok) ==
    /\ pc = "read"
    /\ conn = "open"
    /\ raw_data' = StripNul(line)
    /\ \E out \in {AnalyseMessage(StripNul(line), callback, ok)} :
           /\ io' = Append(io, ReadOK) \o out.writes
           /\ calls' = calls + out.calls
           /\ last_report' = out.report
           /\ exc' = out.exc
           /\ pc' = IF out.exc = "none" THEN "wait" ELSE "crashed"
    /\ UNCHANGED <<conn, closing, callback, serial_errors, sleep_time,
                   failure_logs, starts, backed_off,
                   reports,
                   stream, buffer, frames,
                   ownerVars, sinkVars>>

\* readline raises SerialException (always so on a closed port): nothing in
\* _poll_thread catches it
ReadFail ==
    /\ pc = "read"
    /\ conn # "None"
    /\ io' = Append(io, IO("read", <<>>, FALSE))
    /\ pc' = "crashed"
    /\ exc' = "SerialException"
    /\ UNCHANGED <<conn, closing, callback, serial_errors, sleep_time, raw_data,
                   failure_logs, calls, last_report, starts, backed_off,
                   reports,
                   stream, buffer, frames,
                   ownerVars, sinkVars>>

\* self._closing.wait(sleep_time) returns, by timeout or because the event
\* is set: the iteration is over
Wait ==
    /\ pc = "wait"
    /\ pc' = "loop"
    /\ raw_data' = <<>>
    /\ io' = <<>>
    /\ failure_logs' = 0
    /\ calls' = 0
    /\ last_report' = NewReport
    /\ UNCHANGED <<conn, closing, callback, serial_errors, sleep_time,
                   exc, starts, backed_off,
                   reports,
                   stream, buffer, frames,
                   ownerVars, sinkVars>>

\* self._conn.close() after the loop
CloseConn ==
    /\ pc = "close"
    /\ conn # "None"
    /\ conn' = "closed"
    /\ io' = Append(io, CloseOK)
    /\ pc' = "done"
    /\ UNCHANGED <<closing, callback, serial_errors, sleep_time, raw_data,
                   exc, failure_logs, calls, last_report, starts, backed_off,
                   reports,
                   stream, buffer, frames,
                   ownerVars, sinkVars>>

\* self._conn.close() with self._conn None raises AttributeError
CloseNone ==
    /\ pc = "close"
    /\ conn = "None"
    /\ pc' = "crashed"
    /\ exc' = "AttributeError"
    /\ UNCHANGED <<conn, closing, callback, serial_errors, sleep_time, raw_data,
                   io, failure_logs, calls, last_report, starts, backed_off,
                   reports,
                   stream, buffer, frames,
                   ownerVars, sinkVars>>

Next ==
    \/ \E cb \in BOOLEAN : StartPolling(cb)
    \/ StopPolling
    \/ LoopExit
    \/ ConnectOK
    \/ ConnectOpenFail
    \/ ConnectWriteFail
    \/ SkipConnect
    \/ NoRead
    \/ \E line \in Lines, ok \in BOOLEAN : ReadLine(line, ok)
    \/ ReadFail
    \/ Wait
    \/ CloseConn
    \/ CloseNone

Spec == Init /\ [][Next]_vars

\* the steps of the polling thread: each of its blocking calls returns or
\* raises (a connection attempt, a read bounded by the read timeout, the
\* wait bounded by sleep_time and ended by the shutdown signal)
ThreadStep ==
    \/ LoopExit
    \/ ConnectOK
    \/ ConnectOpenFail
    \/ ConnectWriteFail
    \/ SkipConnect
    \/ NoRead
    \/ \E line \in Lines, ok \in BOOLEAN : ReadLine(line, ok)
    \/ ReadFail
    \/ Wait
    \/ CloseConn
    \/ CloseNone

\* the polling thread is scheduled as long as it can take a step
FairSpec == Spec /\ WF_vars(ThreadStep)

(***************************************************************************)
(* Properties.                                                             *)
(***************************************************************************)
LastIO == io[Len(io)]

\* a line was read and analysed in the current iteration
FrameAnalysed ==
    pc \in {"wait", "crashed"} /\ \E i \in 1..Len(io) : io[i] = ReadOK

\* the step is a read that returned a line, with its analysis
ReadStep == pc = "read" /\ Len(io') > Len(io) /\ io'[Len(io) + 1] = ReadOK

\* the step is a connection attempt counted as a failure
FailureStep == pc = "loop" /\ serial_errors' = serial_errors + 1

\* the step is a connection attempt that succeeded
ConnectedStep ==
    pc = "loop" /\ conn = "None" /\ conn' = "open"
    /\ serial_errors' # serial_errors + 1

\* C1: the backoff delay sleep_time never exceeds max_thread_sleep (900 s).
C1_DelayWithinCeiling == sleep_time <= max_thread_sleep

\* C2: in a run of connection failures the delay changes only on a failure
\* whose count is a multiple of 10, where it is doubled or reset to the
\* floor; every other failure leaves it unchanged.
C2_DelayChangesOnTenth ==
    [][FailureStep =>
         IF serial_errors' % 10 = 0
         THEN sleep_time' \in {2 * sleep_time, thread_sleep}
         ELSE sleep_time' = sleep_time]_vars

\* the 110th failure in a row has reset the delay, after it had been doubled
C2_Witness ==
    serial_errors = 110 /\ sleep_time = thread_sleep /\ backed_off /\ pc = "read"

\* C3: a connection failure produces a log record only when the failure
\* count is a multiple of 10.
C3_LogOnlyOnTenth == failure_logs > 0 => serial_errors % 10 = 0

\* C4: a successful connection attempt resets the failure counter to 0 and
\* the delay to the floor, whatever they were before.
C4_SuccessResets ==
    [][ConnectedStep => serial_errors' = 0 /\ sleep_time' = thread_sleep]_vars

\* a connection made after the thread had backed off
C4_Witness ==
    /\ backed_off
    /\ conn = "open"
    /\ io = <<OpenOK, PollRequest(TRUE)>>
    /\ serial_errors = 0
    /\ sleep_time = thread_sleep

\* C5: after a read that failed with a transport error the controller is
\* Disconnected and the polling thread keeps running.
C5_ReadErrorReconnects ==
    (io # <<>> /\ LastIO = IO("read", <<>>, FALSE))
        => (conn = "None" /\ pc # "crashed")

\* C6: the polling thread leaves its loop only because the shutdown signal
\* was set; no failure raised while analysing a frame, decoding a report or
\* running the callback ends it.
C6_LoopLeftOnlyOnShutdown ==
    (pc \in {"close", "done", "crashed"} /\ exc # "SerialException")
        => closing = "set"

\* C7: a successful connection establishment is followed by exactly one
\* poll request written to the device, before any read on that connection.
C7_PollAfterConnect ==
    [][/\ ConnectedStep => io' = io \o <<OpenOK, PollRequest(TRUE)>>
       /\ (/\ Len(io) >= 2
           /\ io[Len(io) - 1] = OpenOK
           /\ LastIO = PollRequest(TRUE)
           /\ io' # io)
          => (/\ Len(io') > Len(io)
              /\ SubSeq(io', 1, Len(io)) = io
              /\ io'[Len(io) + 1].op = "read")]_vars

\* connected, polled once, and then the first line read
C7_Witness ==
    /\ Len(io) >= 3
    /\ SubSeq(io, 1, 3) = <<OpenOK, PollRequest(TRUE), ReadOK>>
    /\ pc = "wait"

C9_AckNackNoAction ==
    [][(ReadStep /\ Classify(raw_data') \in {"ACK", "NACK"})
         => /\ io' = Append(io, ReadOK)
            /\ calls' = calls
            /\ conn' = conn
            /\ serial_errors' = serial_errors
            /\ sleep_time' = sleep_time
            /\ pc' = "wait"]_vars

\* a Nack frame was analysed while a callback was registered
C9_Witness ==
    pc = "wait" /\ FrameAnalysed /\ callback /\ Classify(raw_data) = "NACK"

\* the report kinds of the command M
MessageTypes ==
    {"THERMO_CALIB", "REPORT", "WETNESS_CALIB", "THRESHOLD", "WETNESS"}

\* C10: with a callback registered, the callback is invoked exactly once,
\* with the decoded report, for every frame classified as a message, and
\* for no other frame.
C10_CallbackPerMessage ==
    (FrameAnalysed /\ callback)
        => IF Classify(raw_data) \in MessageTypes
           THEN calls = 1 /\ last_report = Report(raw_data)
           ELSE calls = 0

\* C11: when a read on the open connection returns no data (the read
\* timeout has passed) or a bare terminator, the controller writes one new
\* poll request before it waits; this holds at every such read.
C11_SilenceRepolled ==
    [][(ReadStep /\ raw_data' \in {<<>>, <<10>>})
         => /\ Len(io') = Len(io) + 2
            /\ io'[Len(io) + 2].op = "write"
            /\ io'[Len(io) + 2].data = REQUEST_POLL]_vars

\* a read that returned a bare terminator was answered by a poll request
C11_Witness ==
    /\ pc = "wait"
    /\ FrameAnalysed
    /\ raw_data = <<10>>
    /\ LastIO = PollRequest(TRUE)

\* the first word of the line raw is the value of no ResponsePrefix
UnknownType(raw) ==
    /\ ~NoData(raw)
    /\ Split(raw) # <<>>
    /\ \A n \in DOMAIN ResponsePrefix : ResponsePrefix[n] # Split(raw)[1]

\* C12: a line whose leading type bytes are no recognised kind is discarded:
\* no callback, no write, connection, failure counter and delay unchanged,
\* and the thread goes on to its wait and the next read.
C12_UnknownTypeDiscarded ==
    [][(ReadStep /\ UnknownType(raw_data'))
         => /\ io' = Append(io, ReadOK)
            /\ calls' = calls
            /\ conn' = conn
            /\ serial_errors' = serial_errors
            /\ sleep_time' = sleep_time
            /\ pc' = "wait"]_vars

\* a line of a known type followed by one more byte was discarded while a
\* callback was registered
C12_Witness ==
    /\ pc = "wait"
    /\ FrameAnalysed
    /\ callback
    /\ raw_data = <<2, 80, 88, 10>>
    /\ io = <<ReadOK>>

\* C13: after the shutdown signal the thread leaves the loop, closes the
\* connection exactly once with no read or write after the close, and ends
\* without raising, also when no connection was ever opened.
C13_ShutdownClosesOnce ==
    /\ pc = "done"
         => /\ conn = "closed"
            /\ Cardinality({i \in 1..Len(io) : io[i].op = "close"}) = 1
            /\ LastIO = CloseOK
    /\ ~(pc = "crashed" /\ closing = "set" /\ exc = "AttributeError")

\* C14: once the shutdown signal is set the polling thread ends, so that
\* the join of stop_polling returns.
C14_StopTerminates == (closing = "set") ~> (pc \in {"done", "crashed"})

\* the thread has ended after stop_polling, its connection closed
C14_Witness ==
    /\ closing = "set"
    /\ pc = "done"
    /\ conn = "closed"
    /\ LastIO = CloseOK

(***************************************************************************)
(* Decoding on its own: Report(raw_data) applied to one sensors frame.     *)
(* raw_data holds the frame, last_report the report made of it, exc the    *)
(* exception that left Report(raw_data); pc is "new" before the call and   *)
(* "parsed" or "raised" after it.  The other variables keep their initial  *)
(* values.                                                                 *)
(***************************************************************************)
\* status codes as the device prints them: 0 1 2 3 4 5 6 7 8 9 -1 10 X
CodeWords ==
    { <<48>>, <<49>>, <<50>>, <<51>>, <<52>>, <<53>>, <<54>>, <<55>>,
      <<56>>, <<57>>, <<45, 49>>, <<49, 48>>, <<88>> }

\* the wet and rain letters: N W w R r
LetterWords ==
    { <<78>>, <<87>>, <<119>>, <<82>>, <<114>> }

\* temperatures around the limits the decoder tests: 0.0 27.0 -0.5 -0.6 -1.5 -1.6 -2.5 -2.6 -3.5 -3.6 999.0 999.1 999.9 -998.0 -998.1 -998.9 -999.0 -999.1 -999.9 -99.0 -99.1 -99.9 1.5.2
FloatWords ==
    { <<48, 46, 48>>, <<50, 55, 46, 48>>, <<45, 48, 46, 53>>,
      <<45, 48, 46, 54>>, <<45, 49, 46, 53>>, <<45, 49, 46, 54>>,
      <<45, 50, 46, 53>>, <<45, 50, 46, 54>>, <<45, 51, 46, 53>>,
      <<45, 51, 46, 54>>, <<57, 57, 57, 46, 48>>, <<57, 57, 57, 46, 49>>,
      <<57, 57, 57, 46, 57>>, <<45, 57, 57, 56, 46, 48>>,
      <<45, 57, 57, 56, 46, 49>>, <<45, 57, 57, 56, 46, 57>>,
      <<45, 57, 57, 57, 46, 48>>, <<45, 57, 57, 57, 46, 49>>,
      <<45, 57, 57, 57, 46, 57>>, <<45, 57, 57, 46, 48>>,
      <<45, 57, 57, 46, 49>>, <<45, 57, 57, 46, 57>>,
      <<49, 46, 53, 46, 50>> }

FieldWords == CodeWords \cup LetterWords \cup FloatWords

\* the example packet cut after its first n fields, and with one more field
ShortPayloads == { SubSeq(ExampleFields, 1, n) : n \in 0..34 }

LongPayloads == { ExampleFields \o << <<48>> >> }

\* the example packet with one field replaced
OneFieldPayloads ==
    { [ExampleFields EXCEPT ![i] = v] : i \in 1..35, v \in FieldWords }

\* the example packet with rain code, wet letter and dT_sky replaced
WetPayloads ==
    { [ExampleFields EXCEPT ![4] = r, ![10] = l, ![7] = t] :
        r \in { <<48>>, <<49>>, <<50>>, <<51>> },
        l \in { <<78>>, <<87>>, <<119>> },
        t \in { <<45,51,46,54>>, <<45,57,57,56,46,48>>, <<45,57,57,56,46,57>>,
                <<45,57,57,57,46,48>>, <<45,57,57,57,46,57>> } }

Payloads == ShortPayloads \cup LongPayloads \cup OneFieldPayloads \cup WetPayloads

\* the frames handed to Report(): sensors frames of the payloads, and one
\* with a byte that is no UTF-8
DecodeInputs ==
    { Frame(ResponsePrefix.REPORT, fs) : fs \in Payloads }
    \cup { Frame(ResponsePrefix.REPORT, [ExampleFields EXCEPT ![35] = <<255>>]) }

DecodeInit ==
    /\ raw_data \in DecodeInputs
    /\ pc = "new"
    /\ last_report = NewReport
    /\ exc = "none"
    /\ conn = "None"
    /\ closing = "None"
    /\ callback = FALSE
    /\ serial_errors = 0
    /\ sleep_time = thread_sleep
    /\ io = <<>>
    /\ failure_logs = 0
    /\ calls = 0
    /\ starts = 0
    /\ backed_off = FALSE
    /\ reports = <<>>
    /\ stream = <<>>
    /\ buffer = <<>>
    /\ frames = <<>>
    /\ threads = <<>>
    /\ caller = "free"
    /\ client = FALSE
    /\ queue = <<>>
    /\ held = 0
    /\ written = <<>>
    /\ sink_pc = "new"
    /\ sink_closing = FALSE
    /\ send_failures = 0
    /\ offered = 0

\* report = Report(raw_data)
Decode ==
    /\ pc = "new"
    /\ \E r \in {Report(raw_data)} :
           /\ last_report' = r
           /\ exc' = r.exc
           /\ pc' = IF r.exc = "none" THEN "parsed" ELSE "raised"
    /\ UNCHANGED <<conn, closing, callback, serial_errors, sleep_time, raw_data,
                   io, failure_logs, calls, starts, backed_off,
                   reports,
                   stream, buffer, frames,
                   ownerVars, sinkVars>>

DecodeNext == Decode

DecodeSpec == DecodeInit /\ [][DecodeNext]_vars

\* the fields of the payload of the sensors frame raw, as the decoder
\* splits them
PayloadFields(raw) ==
    Split(Slice(raw, Len(ResponsePrefix.REPORT) + 1, Len(raw) - 1))

\* the payload of the sensors frame raw is text
PayloadIsText(raw) ==
    Decodable(Slice(raw, Len(ResponsePrefix.REPORT) + 1, Len(raw) - 1))

\* C15: a sensors frame whose payload has fewer than 35 fields gives a
\* report with errors['packet'] set and no data at all.
C15_ShortPacketNoData ==
    (pc \in {"parsed", "raised"} /\ PayloadIsText(raw_data)
       /\ Len(PayloadFields(raw_data)) < 35)
        => /\ pc = "parsed"
           /\ "packet" \in DOMAIN last_report.errors
           /\ last_report.data = EmptyMap

\* the packet of 10 fields was decoded
C15_Witness ==
    /\ pc = "parsed"
    /\ Len(PayloadFields(raw_data)) = 10
    /\ "packet" \in DOMAIN last_report.errors

\* C16: decoding a sensors frame of 35 fields never raises: a report is
\* returned whatever the fields are.
C16_DecodeNeverRaises ==
    (pc \in {"parsed", "raised"} /\ PayloadIsText(raw_data)
       /\ Len(PayloadFields(raw_data)) = 35)
        => pc = "parsed"

\* the packet was parsed to its end
ParsedCompletely == pc = "parsed" /\ "wet" \in DOMAIN last_report.data

\* the relations of C17 between the fields s of a packet and the report
FieldsMapped(s, d, errors) ==
    /\ d["T_ambient"] = ParseFloat(s[8]).v
    /\ d["humidity"] = ParseFloat(s[12]).v
    /\ d["windspeed"] = ParseFloat(s[9]).v
    /\ d["raining"] = (ParseInt(s[4]).v = 3)
    /\ d["wet"] = \/ d["raining"]
                  \/ s[10] = <<87>>
                  \/ (-9990 <= ParseFloat(s[7]).v /\ ParseFloat(s[7]).v < -9980)
    /\ ParseInt(s[15]).v = 0
         => ("heater status" \in DOMAIN d /\ "heater" \notin DOMAIN errors)

MaxReports == 3

\* columns = [...]
AverageColumns ==
    <<"T_ambient", "humidity", "windspeed", "dT_sky", "cloud status", "wet",
      "raining">>

\* the columns np.mean is applied to
MeanColumns == <<"T_ambient", "humidity", "windspeed", "dT_sky">>

\* Collect with a report that lacks a numeric column counted as 0
Collect_MissingAsZero(rs, c) ==
    LET col[i \in 0..Len(rs)] ==
            IF i = 0 THEN <<>>
            ELSE IF c \in DOMAIN rs[i].data
                 THEN Append(col[i - 1], rs[i].data[c])
                 ELSE IF \E k \in 1..Len(MeanColumns) : MeanColumns[k] = c
                      THEN Append(col[i - 1], 0)
                      ELSE col[i - 1]
    IN  col[Len(rs)]

\* data[c] after the loop over the reports: the values of column c of the
\* reports that have it, in order (KeyError: pass)
Collect(rs, c) ==
    LET col[i \in 0..Len(rs)] ==
            IF i = 0 THEN <<>>
            ELSE IF c \in DOMAIN rs[i].data
                 THEN Append(col[i - 1], rs[i].data[c])
                 ELSE col[i - 1]
    IN  col[Len(rs)]

\* np.mean(xs)
Mean(xs) ==
    LET total[i \in 0..Len(xs)] == IF i = 0 THEN 0 ELSE total[i - 1] + xs[i]
    IN  [num |-> total[Len(xs)], den |-> Len(xs)]

\* any(xs)
AnyTrue(xs) == \E i \in 1..Len(xs) : xs[i] = TRUE

\* Report.average(rs): a new report with the four means and raining
Average(rs) ==
    LET means[k \in 0..Len(MeanColumns)] ==
            IF k = 0 THEN NewReport
            ELSE SetData(means[k - 1], MeanColumns[k],
                         Mean(Collect(rs, MeanColumns[k])))
    IN  SetData(means[Len(MeanColumns)], "raining", AnyTrue(Collect(rs, "raining")))

\* the example packet with ambient temperature t and rain code r
Measured(t, r) ==
    Report(Frame(ResponsePrefix.REPORT, [ExampleFields EXCEPT ![8] = t, ![4] = r]))

\* reports to average: 10.0 and 20.0 degrees without rain, 30.0 degrees
\* with rain, a short packet (no data), a packet that fails at the
\* humidity (T_ambient only), a packet with dT_sky saturated (no dT_sky)
AverageReports ==
    { Measured(<<49, 48, 46, 48>>, <<49>>),
      Measured(<<50, 48, 46, 48>>, <<49>>),
      Measured(<<51, 48, 46, 48>>, <<51>>),
      Report(Frame(ResponsePrefix.REPORT, SubSeq(ExampleFields, 1, 10))),
      Report(Frame(ResponsePrefix.REPORT, [ExampleFields EXCEPT ![12] = <<88>>])),
      Report(Frame(ResponsePrefix.REPORT,
                   [ExampleFields EXCEPT ![7] = <<45, 57, 57, 57, 46, 57>>])) }

AverageInit ==
    /\ reports \in UNION { [1..n -> AverageReports] : n \in 0..MaxReports }
    /\ pc = "listed"
    /\ last_report = NewReport
    /\ raw_data = <<>>
    /\ exc = "none"
    /\ conn = "None"
    /\ closing = "None"
    /\ callback = FALSE
    /\ serial_errors = 0
    /\ sleep_time = thread_sleep
    /\ io = <<>>
    /\ failure_logs = 0
    /\ calls = 0
    /\ starts = 0
    /\ backed_off = FALSE
    /\ stream = <<>>
    /\ buffer = <<>>
    /\ frames = <<>>
    /\ threads = <<>>
    /\ caller = "free"
    /\ client = FALSE
    /\ queue = <<>>
    /\ held = 0
    /\ written = <<>>
    /\ sink_pc = "new"
    /\ sink_closing = FALSE
    /\ send_failures = 0
    /\ offered = 0

\* report = Report.average(reports)
DoAverage ==
    /\ pc = "listed"
    /\ last_report' = Average(reports)
    /\ pc' = "averaged"
    /\ UNCHANGED <<conn, closing, callback, serial_errors, sleep_time, raw_data,
                   exc, io, failure_logs, calls, starts, backed_off, reports,
                   stream, buffer, frames,
                   ownerVars, sinkVars>>

AverageNext == DoAverage

AverageSpec == AverageInit /\ [][AverageNext]_vars

\* the positions in rs of the reports that have column c
Having(rs, c) == {i \in 1..Len(rs) : c \in DOMAIN rs[i].data}

\* the sum of column c over the reports of rs that have it
ColumnSum(rs, c) ==
    LET acc[i \in 0..Len(rs)] ==
            IF i = 0 THEN 0
            ELSE acc[i - 1] + (IF i \in Having(rs, c) THEN rs[i].data[c] ELSE 0)
    IN  acc[Len(rs)]

\* C18: Report.average returns a new report in which each numeric column
\* is the mean over exactly the reports that have the column, and raining
\* holds iff some report has raining true; the reports are left as they
\* were.  Three reports with 10.0, 20.0, 30.0 degrees and rain flags false,
\* false, true give 20.0 degrees and raining.
C18_AverageOfReports ==
    [][(pc = "listed" /\ pc' = "averaged")
         => /\ reports' = reports
            /\ \A k \in 1..Len(MeanColumns) :
                  LET c == MeanColumns[k]
                  IN  /\ last_report'.data[c].den = Cardinality(Having(reports, c))
                      /\ last_report'.data[c].num = ColumnSum(reports, c)
            /\ last_report'.data["raining"] =
                  (\E i \in Having(reports, "raining") : reports[i].data["raining"])
            /\ last_report'.errors = EmptyMap
            /\ last_report'.comments = EmptyMap]_vars

\* 10.0, 20.0 and 30.0 degrees, the last one raining, averaged to 60.0 / 3
\* and raining
C18_Witness ==
    /\ pc = "averaged"
    /\ Len(reports) = 3
    /\ \A i \in 1..3 : "T_ambient" \in DOMAIN reports[i].data
    /\ reports[1].data["T_ambient"] = 100
    /\ reports[2].data["T_ambient"] = 200
    /\ reports[3].data["T_ambient"] = 300
    /\ last_report.data["T_ambient"] = [num |-> 600, den |-> 3]
    /\ last_report.data["raining"] = TRUE

\* C19: a line that begins with a stray null byte is processed as the same
\* line without that byte: a step of the thread is the reading and analysis
\* of the one exactly when it is the reading and analysis of the other
\* (same classification, same writes, same callback and report, same exit).
C19_NullPrefixIgnored ==
    [][\A l \in Lines, ok \in BOOLEAN :
          (Len(l) = 0 \/ l[1] # NUL)
            => (ReadLine(<<NUL>> \o l, ok) <=> ReadLine(l, ok))]_vars

\* a sensors frame was read and handed to the callback; the line read may
\* have been the frame with the null byte in front, which is in Lines
C19_Witness ==
    /\ (<<NUL>> \o ExampleLine) \in Lines
    /\ pc = "wait"
    /\ FrameAnalysed
    /\ raw_data = ExampleLine
    /\ calls = 1
    /\ last_report = Report(ExampleLine)

(***************************************************************************)
(* The frame extractor, extract(buffer) -> (frames, remainder).  The       *)
(* module that holds it is not among the sources at hand (boltwood.py      *)
(* leaves framing to readline of the serial port); it is modelled from     *)
(* its contract: every terminator closes a frame that starts after the     *)
(* previous one, a leading null byte of a frame is dropped, and what       *)
(* follows the last terminator is the remainder.                           *)
(***************************************************************************)
FRAME_END == 10

MaxFrames == 3

\* the positions of the terminators in b
Terminators(b) == {i \in 1..Len(b) : b[i] = FRAME_END}

\* Extract that gives up the bytes after the last terminator
Extract_DropRemainder(b) ==
    LET ts == Terminators(b)
        end(n)   == CHOOSE i \in ts : Cardinality({j \in ts : j < i}) = n - 1
        start(n) == IF n = 1 THEN 1 ELSE end(n - 1) + 1
    IN  [frames    |-> [n \in 1..Cardinality(ts) |->
                           StripNul(SubSeq(b, start(n), end(n)))],
         remainder |-> <<>>]

\* extract(b)
Extract(b) ==
    LET ts == Terminators(b)
        end(n)   == CHOOSE i \in ts : Cardinality({j \in ts : j < i}) = n - 1
        start(n) == IF n = 1 THEN 1 ELSE end(n - 1) + 1
    IN  [frames    |-> [n \in 1..Cardinality(ts) |->
                           StripNul(SubSeq(b, start(n), end(n)))],
         remainder |-> IF ts = {} THEN b
                       ELSE SubSeq(b, end(Cardinality(ts)) + 1, Len(b))]

\* complete frames: a bare terminator, a poll frame, a short message
WireFrames == { <<FRAME_END>>, <<2, 80, FRAME_END>>, <<2, 77, 68, 32, 49, FRAME_END>> }

\* xs[1] \o ... \o xs[n]
Concat(xs) ==
    LET cat[i \in 0..Len(xs)] == IF i = 0 THEN <<>> ELSE cat[i - 1] \o xs[i]
    IN  cat[Len(xs)]

\* the byte streams made of up to MaxFrames complete frames
Streams ==
    { Concat(fs) : fs \in UNION { [1..n -> WireFrames] : n \in 0..MaxFrames } }

ExtractInit ==
    /\ stream \in Streams
    /\ buffer = <<>>
    /\ frames = <<>>
    /\ threads = <<>>
    /\ caller = "free"
    /\ client = FALSE
    /\ queue = <<>>
    /\ held = 0
    /\ written = <<>>
    /\ sink_pc = "new"
    /\ sink_closing = FALSE
    /\ send_failures = 0
    /\ offered = 0
    /\ pc = "feeding"
    /\ reports = <<>>
    /\ last_report = NewReport
    /\ raw_data = <<>>
    /\ exc = "none"
    /\ conn = "None"
    /\ closing = "None"
    /\ callback = FALSE
    /\ serial_errors = 0
    /\ sleep_time = thread_sleep
    /\ io = <<>>
    /\ failure_logs = 0
    /\ calls = 0
    /\ starts = 0
    /\ backed_off = FALSE

\* the next k bytes of the stream arrive and extract is applied to the
\* remainder kept so far followed by them
Feed(k) ==
    /\ pc = "feeding"
    /\ k \in 1..Len(stream)
    /\ \E out \in {Extract(buffer \o SubSeq(stream, 1, k))} :
           /\ frames' = frames \o out.frames
           /\ buffer' = out.remainder
    /\ stream' = SubSeq(stream, k + 1, Len(stream))
    /\ UNCHANGED <<conn, closing, callback, serial_errors, sleep_time, raw_data,
                   pc, exc, io, failure_logs, calls, last_report, starts,
                   backed_off, reports,
                   ownerVars, sinkVars>>

ExtractNext == \E k \in 1..Len(stream) : Feed(k)

ExtractSpec == ExtractInit /\ [][ExtractNext]_vars

\* f is complete: it ends at a terminator and holds no other one
OneTerminator(f) == Terminators(f) = {Len(f)} /\ Len(f) > 0

\* C20: however a stream of complete frames is cut into chunks, every
\* chunk fed leaves the frames yielded, the remainder and the bytes still
\* to come equal, put end to end, to what they were: nothing is lost,
\* added or reordered.  Every frame yielded ends at its one terminator and
\* the remainder holds none, so the frames yielded at the end are F1..Fn
\* with an empty remainder, as when the whole stream is fed at once; a
\* chunk that completes no frame yields none and goes to the remainder
\* unchanged.
C20_ChunkingIrrelevant ==
    [][(pc = "feeding" /\ stream' # stream)
         => /\ Concat(frames') \o buffer' \o stream'
                 = Concat(frames) \o buffer \o stream
            /\ \A i \in 1..Len(frames') : OneTerminator(frames'[i])
            /\ Terminators(buffer') = {}
            /\ stream' = <<>>
                 => /\ buffer' = <<>>
                    /\ frames' = Extract(Concat(frames) \o buffer \o stream).frames
            /\ Terminators(buffer \o SubSeq(stream, 1, Len(stream) - Len(stream'))) = {}
                 => /\ frames' = frames
                    /\ buffer' = buffer \o SubSeq(stream, 1, Len(stream) - Len(stream'))]_vars

\* three frames were fed in chunks that cut a frame in two, and came out
C20_Witness ==
    /\ pc = "feeding"
    /\ stream = <<>>
    /\ buffer = <<>>
    /\ frames = << <<2, 80, FRAME_END>>, <<FRAME_END>>,
                   <<2, 77, 68, 32, 49, FRAME_END>> >>

(***************************************************************************)
(* start_polling and stop_polling called in any order on one instance.     *)
(* threads holds one record per thread created by start_polling, with the  *)
(* thread's position pc and its locals serial_errors and sleep_time; conn, *)
(* closing and callback are the fields of the instance all threads read    *)
(* and write.  caller is "joining" while stop_polling waits in join().     *)
(***************************************************************************)
MaxThreads == 2

MaxThreadErrors == 2

\* the variables start_polling, stop_polling and the threads leave alone
ownerRest == <<serial_errors, sleep_time, raw_data, pc, exc, io, failure_logs,
               calls, last_report, starts, backed_off, reports, stream,
               buffer, frames, sinkVars>>

\* a thread that has not ended
Alive(t) == threads[t].pc \notin {"done", "crashed"}

\* start_polling(callback): a new Event, a new Thread, started; there is no
\* test for a thread that runs already
start_polling(cb) ==
    /\ caller = "free"
    /\ Len(threads) < MaxThreads
    /\ callback' = cb
    /\ closing' = "clear"
    /\ threads' = Append(threads, [pc |-> "loop", serial_errors |-> 0,
                                   sleep_time |-> thread_sleep])
    /\ UNCHANGED <<conn, caller, ownerRest>>

\* stop_polling: self._closing.set(), then self._thread.join() is entered
stop_polling ==
    /\ caller = "free"
    /\ closing # "None"
    /\ closing' = "set"
    /\ caller' = "joining"
    /\ UNCHANGED <<conn, callback, threads, ownerRest>>

\* self._thread.join() returns: the thread created last has ended
join_thread ==
    /\ caller = "joining"
    /\ ~Alive(Len(threads))
    /\ caller' = "free"
    /\ UNCHANGED <<conn, closing, callback, threads, ownerRest>>

\* thread t moves to position p
Goto(t, p) == threads' = [threads EXCEPT ![t].pc = p]

\* while not self._closing.is_set() in thread t: the loop is left
poll_loop_exit(t) ==
    /\ threads[t].pc = "loop"
    /\ closing = "set"
    /\ Goto(t, "close")
    /\ UNCHANGED <<conn, closing, callback, caller, ownerRest>>

\* thread t finds self._conn None and _connect_serial returns
poll_connect_ok(t) ==
    /\ threads[t].pc = "loop"
    /\ closing # "set"
    /\ conn = "None"
    /\ conn' = "open"
    /\ threads' = [threads EXCEPT ![t] = [pc |-> "read", serial_errors |-> 0,
                                          sleep_time |-> thread_sleep]]
    /\ UNCHANGED <<closing, callback, caller, ownerRest>>

\* thread t finds self._conn None and _connect_serial raises
\* SerialException: in Serial() (opened = FALSE, self._conn stays None) or
\* in the write of the poll request (opened = TRUE, self._conn is assigned)
poll_connect_fail(t, opened) ==
    /\ threads[t].pc = "loop"
    /\ closing # "set"
    /\ conn = "None"
    /\ threads[t].serial_errors < MaxThreadErrors
    /\ conn' = IF opened THEN "open" ELSE "None"
    /\ threads' = [threads EXCEPT
                     ![t] = [pc |-> "read",
                             serial_errors |-> @.serial_errors + 1,
                             sleep_time |-> NextSleepTime(@.serial_errors + 1,
                                                          @.sleep_time)]]
    /\ UNCHANGED <<closing, callback, caller, ownerRest>>

\* thread t finds self._conn set: no connection attempt
poll_skip_connect(t) ==
    /\ threads[t].pc = "loop"
    /\ closing # "set"
    /\ conn # "None"
    /\ Goto(t, "read")
    /\ UNCHANGED <<conn, closing, callback, caller, ownerRest>>

\* thread t reads a line from self._conn and analyses it (ok), or the read,
\* a write or the callback raises; on a closed port the read always raises;
\* with self._conn None nothing is read
poll_read(t, ok) ==
    /\ threads[t].pc = "read"
    /\ Goto(t, IF conn = "None" \/ (conn = "open" /\ ok)
               THEN "wait" ELSE "crashed")
    /\ UNCHANGED <<conn, closing, callback, caller, ownerRest>>

\* self._closing.wait(sleep_time) returns in thread t
poll_wait(t) ==
    /\ threads[t].pc = "wait"
    /\ Goto(t, "loop")
    /\ UNCHANGED <<conn, closing, callback, caller, ownerRest>>

\* self._conn.close() after the loop of thread t; AttributeError on None
poll_close(t) ==
    /\ threads[t].pc = "close"
    /\ conn' = IF conn = "None" THEN "None" ELSE "closed"
    /\ Goto(t, IF conn = "None" THEN "crashed" ELSE "done")
    /\ UNCHANGED <<closing, callback, caller, ownerRest>>

OwnerNext ==
    \/ \E cb \in BOOLEAN : start_polling(cb)
    \/ stop_polling
    \/ join_thread
    \/ \E t \in 1..Len(threads) :
          \/ poll_loop_exit(t)
          \/ poll_connect_ok(t)
          \/ \E opened \in BOOLEAN : poll_connect_fail(t, opened)
          \/ poll_skip_connect(t)
          \/ \E ok \in BOOLEAN : poll_read(t, ok)
          \/ poll_wait(t)
          \/ poll_close(t)

OwnerSpec == Init /\ [][OwnerNext]_vars

\* C21: at every moment at most one polling thread is alive: no two threads
\* share the connection handle, whatever the sequence of start_polling and
\* stop_polling calls.
C21_SingleOwner ==
    Cardinality({t \in 1..Len(threads) : Alive(t)}) <= 1

(***************************************************************************)
(* The export sink, class Influx of boltwood/influx.py.                    *)
(*   client         self._client is not None                               *)
(*   queue          self._queue, the reports waiting to be sent            *)
(*   held           the report the worker took from the queue, 0 if none   *)
(*   written        the reports written to the database, in order          *)
(*   sink_pc        position of the worker thread _send_measurements       *)
(*   sink_closing   self._closing is set                                   *)
(*   send_failures  writes that raised NewConnectionError so far           *)
(*   offered        calls of the sink so far; the n-th call offers the     *)
(*                  report n                                               *)
(***************************************************************************)
MaxOffered == 3

MaxSendFailures == 2

\* the variables the sink leaves alone
sinkRest == <<conn, closing, callback, serial_errors, sleep_time, raw_data,
              pc, exc, io, failure_logs, calls, last_report, starts,
              backed_off, reports, stream, buffer, frames, ownerVars>>

\* Influx(url, token, org, bucket): a client exists iff all four are given
SinkInit ==
    /\ client \in BOOLEAN
    /\ queue = <<>>
    /\ held = 0
    /\ written = <<>>
    /\ sink_pc = "new"
    /\ sink_closing = FALSE
    /\ send_failures = 0
    /\ offered = 0
    /\ conn = "None"
    /\ closing = "None"
    /\ callback = FALSE
    /\ serial_errors = 0
    /\ sleep_time = thread_sleep
    /\ raw_data = <<>>
    /\ pc = "idle"
    /\ exc = "none"
    /\ io = <<>>
    /\ failure_logs = 0
    /\ calls = 0
    /\ last_report = NewReport
    /\ starts = 0
    /\ backed_off = FALSE
    /\ reports = <<>>
    /\ stream = <<>>
    /\ buffer = <<>>
    /\ frames = <<>>
    /\ threads = <<>>
    /\ caller = "free"

\* start(): the worker runs up to its loop; without a client it returns
sink_start ==
    /\ sink_pc = "new"
    /\ sink_pc' = IF client THEN "loop" ELSE "done"
    /\ UNCHANGED <<client, queue, held, written, sink_closing, send_failures,
                   offered, sinkRest>>

\* stop(): self._closing.set(); the join that follows returns when the
\* worker has ended
sink_stop ==
    /\ sink_pc # "new"
    /\ ~sink_closing
    /\ sink_closing' = TRUE
    /\ UNCHANGED <<client, queue, held, written, sink_pc, send_failures,
                   offered, sinkRest>>

\* if self._client is not None and isinstance(report, SensorsReport)
Accepted(sensors) == client /\ sensors

\* __call__(report): the report is put on the unbounded queue
sink_call(sensors) ==
    /\ offered < MaxOffered
    /\ offered' = offered + 1
    /\ queue' = IF Accepted(sensors) THEN Append(queue, offered + 1) ELSE queue
    /\ UNCHANGED <<client, held, written, sink_pc, sink_closing,
                   send_failures, sinkRest>>

\* while not self._closing.is_set()
sink_loop ==
    /\ sink_pc = "loop"
    /\ sink_pc' = IF sink_closing THEN "done" ELSE "get"
    /\ UNCHANGED <<client, queue, held, written, sink_closing, send_failures,
                   offered, sinkRest>>

\* report = self._queue.get(): blocks while the queue is empty
sink_get ==
    /\ sink_pc = "get"
    /\ queue # <<>>
    /\ held' = Head(queue)
    /\ queue' = Tail(queue)
    /\ sink_pc' = "send"
    /\ UNCHANGED <<client, written, sink_closing, send_failures, offered,
                   sinkRest>>

\* write_api.write(...) returns
sink_send_ok ==
    /\ sink_pc = "send"
    /\ written' = Append(written, held)
    /\ held' = 0
    /\ sink_pc' = "loop"
    /\ UNCHANGED <<client, queue, sink_closing, send_failures, offered,
                   sinkRest>>

\* PutBack that forgets the report
PutBack_Forget(q, r) == q

\* self._queue.put(report) in the except branch
PutBack(q, r) == Append(q, r)

\* write_api.write(...) raises NewConnectionError: the report is put back
\* (in the model: at most MaxSendFailures times)
sink_send_fail ==
    /\ sink_pc = "send"
    /\ send_failures < MaxSendFailures
    /\ send_failures' = send_failures + 1
    /\ queue' = PutBack(queue, held)
    /\ held' = 0
    /\ sink_pc' = "sleep"
    /\ UNCHANGED <<client, written, sink_closing, offered, sinkRest>>

\* write_api.write(...) raises another exception: nothing catches it, the
\* worker ends
sink_send_raise ==
    /\ sink_pc = "send"
    /\ sink_pc' = "crashed"
    /\ UNCHANGED <<client, queue, held, written, sink_closing, send_failures,
                   offered, sinkRest>>

\* time.sleep(10) returns
sink_sleep ==
    /\ sink_pc = "sleep"
    /\ sink_pc' = "loop"
    /\ UNCHANGED <<client, queue, held, written, sink_closing, send_failures,
                   offered, sinkRest>>

\* the steps of the worker thread
SinkStep ==
    \/ sink_loop
    \/ sink_get
    \/ sink_send_ok
    \/ sink_send_fail
    \/ sink_send_raise
    \/ sink_sleep

SinkNext ==
    \/ sink_start
    \/ sink_stop
    \/ \E sensors \in BOOLEAN : sink_call(sensors)
    \/ SinkStep

SinkSpec == SinkInit /\ [][SinkNext]_vars

\* the worker is scheduled as long as it can take a step
SinkFairSpec == SinkSpec /\ WF_vars(SinkStep)

\* the reports on the queue
Queued == {queue[i] : i \in 1..Len(queue)}

\* the reports written to the database
Written == {written[i] : i \in 1..Len(written)}

\* the worker has been started and has not ended
SinkRunning == sink_pc \in {"loop", "get", "send", "sleep"}

\* C22: a call of the sink with a sensors report appends it to the queue in
\* the same step, without waiting; no step of the running worker loses a
\* report (a report is on the queue, held by the worker or written); and a
\* report on the queue of a running worker is eventually written, failed
\* sends included, unless the worker ends first.
C22_RequeuedUntilWritten ==
    /\ [][(offered' = offered + 1 /\ client)
            => (queue' = queue \/ queue' = Append(queue, offered + 1))]_vars
    /\ [][(SinkRunning /\ sink_pc' # "crashed")
            => (Queued \cup Written \cup ({held} \ {0}))
                 \subseteq (Queued' \cup Written' \cup ({held'} \ {0}))]_vars
    /\ \A r \in 1..MaxOffered :
          (r \in Queued /\ SinkRunning)
             ~> (r \in Written \/ ~SinkRunning)

\* the only report offered was written after a send of it had failed
C22_Witness ==
    /\ offered = 1
    /\ send_failures > 0
    /\ written = <<1>>
    /\ SinkRunning

\* C30: once stop has set the closing flag, the worker ends.
C30_StopEndsWorker ==
    sink_closing ~> (sink_pc \in {"done", "crashed"})

(***************************************************************************)
(* Properties of the decoded sensors report (checked under DecodeSpec).    *)
(***************************************************************************)
\* the message of the deepest of the four bands dT (in tenths) falls below
DeepestBand(dT) ==
    IF dT < -35 THEN ANEMOMETER_CODES.m4
    ELSE IF dT < -25 THEN ANEMOMETER_CODES.m3
    ELSE IF dT < -15 THEN ANEMOMETER_CODES.m2
    ELSE IF dT < -5 THEN ANEMOMETER_CODES.m1
    ELSE "none"

\* C23: the message recorded for the anemometer differential dT is that of
\* the deepest band dT falls below: 'probe not heating' below -3.5,
\* 'bad A/D' below -2.5, 'wet' below -1.5, 'heating up' below -0.5, and no
\* message from -0.5 upwards.
C23_DeepestBandRecorded ==
    (pc = "parsed" /\ "dT_anemom" \in DOMAIN last_report.data)
        => LET msg == DeepestBand(last_report.data["dT_anemom"])
           IN  IF msg = "none"
               THEN "dT_anemom" \notin DOMAIN last_report.errors
               ELSE /\ "dT_anemom" \in DOMAIN last_report.errors
                    /\ last_report.errors["dT_anemom"] = msg

\* the sky temperature of the decoded packet was read: the statements
\* before it went through and field 6 is a number
SkyChecked ==
    /\ pc = "parsed"
    /\ PayloadIsText(raw_data)
    /\ Len(PayloadFields(raw_data)) = 35
    /\ "rain code" \in DOMAIN last_report.data
    /\ ParseFloat(PayloadFields(raw_data)[7]).ok

\* dT_sky of the decoded packet, in tenths
SkyValue == ParseFloat(PayloadFields(raw_data)[7]).v

HeaterChecked ==
    /\ pc \in {"parsed", "raised"}
    /\ PayloadIsText(raw_data)
    /\ Len(PayloadFields(raw_data)) = 35
    /\ "T_case" \in DOMAIN last_report.data
    /\ ParseInt(PayloadFields(raw_data)[15]).ok

\* C25: a heater status code outside 0..7 records errors['unknown code']
\* and no data['heater status']; a code in 0..7 sets data['heater status']
\* to its table text and records errors['heater'] iff the code is neither
\* 0 nor 7; no integer code makes the decode raise.
C25_HeaterCodeRange ==
    HeaterChecked =>
        LET code == ParseInt(PayloadFields(raw_data)[15]).v
            r == last_report
        IN  IF code < 0 \/ code > 7
            THEN /\ "unknown code" \in DOMAIN r.errors
                 /\ "heater status" \notin DOMAIN r.data
            ELSE /\ "heater status" \in DOMAIN r.data
                 /\ r.data["heater status"] = HEATER_CODES[code]
                 /\ ("heater" \in DOMAIN r.errors) = (code \notin {0, 7})

\* every status code and every threshold check of the packet s is nominal
Nominal(s) ==
    /\ ParseInt(s[1]).v = 0
    /\ ParseInt(s[15]).v \in {0, 7}
    /\ -9980 <= ParseFloat(s[7]).v /\ ParseFloat(s[7]).v <= 9990
    /\ -990 <= ParseFloat(s[16]).v /\ ParseFloat(s[16]).v <= 9990
    /\ ParseFloat(s[19]).v >= -5

C27_RainingImpliesWet ==
    (pc = "parsed" /\ {"raining", "wet"} \subseteq DOMAIN last_report.data)
        => (last_report.data["raining"] => last_report.data["wet"])

\* a raining packet with the dry letter and dT_sky = -999.9 was decoded
C27_Witness ==
    /\ ParsedCompletely
    /\ PayloadFields(raw_data)[4] = <<51>>
    /\ PayloadFields(raw_data)[10] = <<78>>
    /\ PayloadFields(raw_data)[7] = <<45, 57, 57, 57, 46, 57>>
    /\ last_report.data["raining"] = TRUE
    /\ last_report.data["wet"] = TRUE

(***************************************************************************)
(* Properties of the polling loop (checked under Spec).                    *)
(***************************************************************************)
\* C28: while the polling thread runs, connection state and backoff
\* counters agree: with the handle set the failure count is 0 and the
\* delay is at its floor of 1 s, and after a connection attempt counted as
\* a failure (the poll write inside the connect step included) the handle
\* is unset.
C28_HandleAgreesWithCounters ==
    pc \in {"loop", "read", "wait"}
        => /\ conn # "None" => (serial_errors = 0 /\ sleep_time = thread_sleep)
           /\ serial_errors > 0 => conn = "None"

\* the outcomes of _analyse_message that return: no data, unknown type, or
\* one of the known kinds
Outcomes == {"nodata", "ValueError"} \cup DOMAIN ResponsePrefix

\* C29: _analyse_message is total over the lines a read can return: every
\* line is no data, of unknown type or of a known kind, and unless the port
\* or the callback raises, the call returns normally; a line of whitespace
\* only is handled without raising.
C29_AnalyseTotal ==
    [][(ReadStep /\ exc' \notin {"SerialException", "CallbackError"})
         => /\ Classify(raw_data') \in Outcomes
            /\ exc' = "none"
            /\ pc' = "wait"]_vars

====
